---- MODULE Spec2Model ----
(***************************************************************************)
(* Model of the native scoring library of genuine-axel                     *)
(* (backend/native/src): the decay engine (decay.cpp), the vector          *)
(* similarity engine (vector_ops.cpp), the graph traversals                *)
(* (graph_ops.cpp), the string similarity engine (string_ops.cpp) and the  *)
(* NumPy entry point of the decay engine (axnmihn_native.cpp).             *)
(*                                                                         *)
(* A C++ double is modelled as a decimal floating-point number             *)
(* [m |-> mantissa, e |-> exponent] of value m * 10^e, rounded to Digits   *)
(* significant digits after every operation, as IEEE arithmetic rounds     *)
(* after every operation.  Exponents are unbounded: the inputs stay far    *)
(* from the overflow and underflow range of a double.                      *)
(***************************************************************************)
EXTENDS Integers, Sequences, FiniteSets

VARIABLES
    pc,         \* position of the call in progress
    avx2,       \* TRUE iff the build defines HAS_AVX2
    config,     \* the DecayConfig of the call
    input,      \* calculate: the DecayInput
    result,     \* calculate: the returned score
    input2,     \* calculate: the same record at a later age
    result2,    \* calculate: the score returned for input2
    inputs,     \* calculate_batch: the vector of DecayInput
    results,    \* calculate_batch: the vector of scores
    i,          \* the (outer) loop index of the batch in progress
    j,          \* calculate_batch: the inner loop index
    end,        \* calculate_batch: the end of the chunk in progress
    written,    \* written[k]: how many times element k of the output was stored
    arr,        \* calculate_batch_arrays: the seven parallel input arrays
    n,          \* calculate_batch_arrays: the number of elements
    output,     \* calculate_batch_arrays: the output array
    va,         \* cosine_similarity: the vector a
    vb,         \* cosine_similarity: the vector b
    cos,        \* cosine_similarity: the returned score
    query,      \* cosine_similarity_batch: the query vector
    corpus,     \* cosine_similarity_batch: the row-major matrix, n_vectors x dim
    n_vectors,  \* cosine_similarity_batch: the number of rows
    dim,        \* cosine_similarity_batch: the length of a row
    query_norm, \* cosine_similarity_batch: the norm of the query
    v,          \* cosine_similarity_batch: the row in progress
    scores,     \* cosine_similarity_batch: the vector `results`
    embeddings, \* find_duplicates_by_embedding: the row-major matrix, n x dim
    threshold,  \* find_duplicates_by_embedding, find_string_duplicates: the threshold
    norms,      \* find_duplicates_by_embedding: the precomputed row norms
    duplicates, \* find_duplicates_by_embedding, find_string_duplicates: the returned list
    np_args,    \* calculate_batch_numpy: the seven NumPy arrays of the caller
    raised,     \* calculate_batch_numpy: TRUE iff the call threw an exception
    adjacency,  \* graph_ops: the adjacency map, a function from its keys to neighbour lists
    start_nodes,\* bfs_neighbors: the start nodes
    max_depth,  \* bfs_neighbors: the depth limit
    visited,    \* bfs_neighbors: the set of visited nodes
    frontier,   \* bfs_neighbors: the queue of <<node, depth>> pairs
    pushes,     \* graph_ops: pushes[x] is how many times node x entered the queue
    n_nodes,    \* find_connected_components: the number of nodes
    component_ids,     \* find_connected_components: the label of every node
    current_component, \* find_connected_components: the next label
    node,       \* find_connected_components: the index of the outer loop
    queue,      \* find_connected_components: the queue of nodes
    strings     \* find_string_duplicates: the list of strings

calcVars == <<input, result, input2, result2>>

batchVars == <<inputs, results, j, end>>

arrayVars == <<arr, n, output>>

cosVars == <<va, vb, cos>>

cosBatchVars == <<query, corpus, n_vectors, dim, query_norm, v, scores>>

decayVars == <<config, i, written, calcVars, batchVars, arrayVars>>

dupVars == <<embeddings, threshold, norms, duplicates>>

numpyVars == <<np_args, raised>>

bfsVars == <<start_nodes, max_depth, visited, frontier>>

componentVars == <<n_nodes, component_ids, current_component, node, queue>>

graphVars == <<adjacency, pushes, bfsVars, componentVars>>

utilVars == <<dupVars, numpyVars, graphVars, strings>>

vars == <<pc, avx2, decayVars, cosVars, cosBatchVars, utilVars>>

(* ---------------------------------------------------------------------- *)
(* Bounds of the model                                                     *)
(* ---------------------------------------------------------------------- *)

\* significant decimal digits kept by the floating-point model
Digits == 3

\* terms of the series used for exp and log
ExpTerms == 8

\* longest vector given to calculate_batch (two full chunks and a partial one)
MaxBatch == 130

\* calculate_batch is given the record pool rotated by 0..MaxSeed
MaxSeed == 2

\* longest array given to calculate_batch_arrays (two lane groups and a remainder)
MaxArray == 9

\* longest vector (one group of four AVX2 lanes and a remainder)
MaxDim == 5

\* most rows of a corpus
MaxRows == 3

(* ---------------------------------------------------------------------- *)
(* Floating-point arithmetic                                               *)
(* ---------------------------------------------------------------------- *)

Abs(x) == IF x < 0 THEN -x ELSE x

Sgn(x) == IF x < 0 THEN -1 ELSE IF x > 0 THEN 1 ELSE 0

RECURSIVE Pow10(_)
Pow10(k) == IF k <= 0 THEN 1 ELSE 10 * Pow10(k - 1)

RECURSIVE NumDigits(_)
NumDigits(x) == IF x < 10 THEN 1 ELSE 1 + NumDigits(x \div 10)

\* the double nearest to m * 10^e
Norm(m, e) ==
    IF m = 0 THEN [m |-> 0, e |-> 0]
    ELSE LET a == Abs(m)
             d == NumDigits(a)
         IN  IF d > Digits
             THEN LET k == d - Digits
                      p == Pow10(k)
                      r == (a + (p \div 2)) \div p
                  IN  IF r >= Pow10(Digits)
                      THEN [m |-> Sgn(m) * (r \div 10), e |-> e + k + 1]
                      ELSE [m |-> Sgn(m) * r, e |-> e + k]
             ELSE [m |-> m * Pow10(Digits - d), e |-> e - (Digits - d)]

\* a literal m * 10^e of the source, and the conversion int -> double
F(m, e) == Norm(m, e)

FromInt(x) == Norm(x, 0)

Zero == F(0, 0)

One == F(1, 0)

Half == F(5, -1)

FNeg(a) == [m |-> -a.m, e |-> a.e]

FMul(a, b) == Norm(a.m * b.m, a.e + b.e)

\* the result of a division by zero: an infinity or a NaN, no finite double
NotFinite == [m |-> 0, e |-> 1]

\* a / b
FDiv(a, b) ==
    IF b.m = 0 THEN NotFinite
    ELSE Norm(Sgn(a.m) * Sgn(b.m) * ((Abs(a.m) * Pow10(Digits + 1)) \div Abs(b.m)),
              a.e - b.e - (Digits + 1))

FAdd(a, b) ==
    IF a.m = 0 THEN b
    ELSE IF b.m = 0 THEN a
    ELSE LET hi == IF a.e >= b.e THEN a ELSE b
             lo == IF a.e >= b.e THEN b ELSE a
             d  == hi.e - lo.e
         IN  IF d > Digits + 1 THEN hi
             ELSE Norm(hi.m * Pow10(d) + lo.m, lo.e)

FSub(a, b) == FAdd(a, FNeg(b))

\* the sign of the exact difference decides a comparison
FCmp(a, b) ==
    IF a.m = 0 THEN -Sgn(b.m)
    ELSE IF b.m = 0 THEN Sgn(a.m)
    ELSE IF Sgn(a.m) # Sgn(b.m) THEN Sgn(a.m)
    ELSE IF a.e = b.e THEN Sgn(a.m - b.m)
    ELSE IF a.e > b.e THEN Sgn(a.m) ELSE -Sgn(a.m)

FLt(a, b) == FCmp(a, b) < 0

FLe(a, b) == FCmp(a, b) <= 0

FGe(a, b) == FCmp(a, b) >= 0

FGt(a, b) == FCmp(a, b) > 0

RECURSIVE IsqrtB(_, _, _)
IsqrtB(x, lo, hi) ==
    IF hi - lo <= 1 THEN lo
    ELSE LET mid == (lo + hi) \div 2
         IN  IF mid * mid <= x THEN IsqrtB(x, mid, hi) ELSE IsqrtB(x, lo, mid)

Isqrt(x) == IsqrtB(x, 0, 46340)

\* std::sqrt for a >= 0
FSqrt(a) ==
    IF a.m <= 0 THEN Zero
    ELSE LET k == IF (a.e - Digits) % 2 = 0 THEN Digits ELSE Digits + 1
         IN  Norm(Isqrt(a.m * Pow10(k)), (a.e - k) \div 2)

\* exp(x) for 0 <= x <= 1: 1 + x/1 (1 + x/2 (1 + x/3 ( ... )))
RECURSIVE ExpHorner(_, _)
ExpHorner(x, t) ==
    IF t > ExpTerms THEN One
    ELSE FAdd(One, FMul(FDiv(x, FromInt(t)), ExpHorner(x, t + 1)))

\* exp(x) for x >= 0: halve the argument until it is at most 1, then square
RECURSIVE FExpPos(_)
FExpPos(x) ==
    IF FLt(One, x)
    THEN LET h == FExpPos(FMul(x, Half)) IN FMul(h, h)
    ELSE ExpHorner(x, 1)

\* std::exp
StdExp(y) == IF y.m < 0 THEN FDiv(One, FExpPos(FNeg(y))) ELSE FExpPos(y)

\* 2 (z + z^3/3 + z^5/5 + ...), the series of log((1+z)/(1-z))
RECURSIVE AtanhSeries(_, _, _)
AtanhSeries(z, zp, t) ==
    IF t > ExpTerms THEN Zero
    ELSE FAdd(FDiv(zp, FromInt(2 * t - 1)),
              AtanhSeries(z, FMul(zp, FMul(z, z)), t + 1))

Ln2 == F(693147, -6)

\* log(x) for x >= 1: log(x) = log 2 + log(x/2) until x <= 1.5
RECURSIVE FLn(_)
FLn(x) ==
    IF FLt(F(15, -1), x)
    THEN FAdd(Ln2, FLn(FMul(x, Half)))
    ELSE LET z == FDiv(FSub(x, One), FAdd(x, One))
         IN  FMul(F(2, 0), AtanhSeries(z, z, 1))

\* std::log1p for x >= 0
StdLog1p(x) == FLn(FAdd(One, x))

\* std::min(a, b) == (b < a) ? b : a ; std::max(a, b) == (a < b) ? b : a
StdMin(a, b) == IF FLt(b, a) THEN b ELSE a

StdMax(a, b) == IF FLt(a, b) THEN b ELSE a

\* std::clamp on int
Clamp(x, lo, hi) == IF x < lo THEN lo ELSE IF hi < x THEN hi ELSE x

(* ---------------------------------------------------------------------- *)
(* decay.cpp: the single-record score                                      *)
(* ---------------------------------------------------------------------- *)

\* inline double fast_exp_neg(double x): both branches call std::exp(-x)
fast_exp_neg(x) ==
    IF FLt(x, F(1, -2)) THEN StdExp(FNeg(x)) ELSE StdExp(FNeg(x))

\* inline double fast_log1p(double x)
fast_log1p(x) ==
    IF FLt(x, F(1, -1))
    THEN LET x2 == FMul(x, x)
             x3 == FMul(x2, x)
         IN  FAdd(FSub(x, FMul(Half, x2)), FMul(FDiv(One, F(3, 0)), x3))
    ELSE StdLog1p(x)

\* mutant of RecencyParadox: a last access exactly 24 hours ago still counts
RecencyParadoxUpTo24(in) ==
    /\ FGe(in.last_access_hours, Zero)
    /\ FGt(in.hours_passed, F(168, 0))
    /\ FLe(in.last_access_hours, F(24, 0))

\* mutant of RecencyParadox: the age test includes 168 hours
RecencyParadoxFrom168(in) ==
    /\ FGe(in.last_access_hours, Zero)
    /\ FGe(in.hours_passed, F(168, 0))
    /\ FLt(in.last_access_hours, F(24, 0))

\* if (last_access_hours >= 0 && hours_passed > 168.0 && last_access_hours < 24.0)
RecencyParadox(in) ==
    /\ FGe(in.last_access_hours, Zero)
    /\ FGt(in.hours_passed, F(168, 0))
    /\ FLt(in.last_access_hours, F(24, 0))

\* mutant of type_idx: the type wraps around the table instead of being clamped
type_idx_wrapped(mt) == mt % 4

\* int type_idx = std::clamp(input.memory_type, 0, 3): the index into
\* type_multipliers, in calculate and in every lane
type_idx(mt) == Clamp(mt, 0, 3)

\* double effective_rate = base_decay_rate * type_multiplier * channel_boost
\*                         / stability * (1.0 - resistance)
effective_rate(in, cfg) ==
    LET stability == FAdd(One, FMul(cfg.access_stability_k,
                                    fast_log1p(FromInt(in.access_count))))
        resistance == StdMin(One, FMul(FromInt(in.connection_count),
                                       cfg.relation_resistance_k))
        type_multiplier == cfg.type_multipliers[type_idx(in.memory_type)]
        channel_boost == FDiv(One, FAdd(One, FMul(cfg.channel_diversity_k,
                                                  FromInt(in.channel_mentions))))
    IN  FMul(FDiv(FMul(FMul(cfg.base_decay_rate, type_multiplier), channel_boost),
                  stability),
             FSub(One, resistance))

\* fast_exp_neg(effective_rate * input.hours_passed): the decay factor
decay_factor(in, cfg) ==
    fast_exp_neg(FMul(effective_rate(in, cfg), in.hours_passed))

\* mutant of decayed_value: the boost is applied whatever the last access is
decayed_value_always_boosted(in, cfg) ==
    FMul(FMul(in.importance, decay_factor(in, cfg)), F(13, -1))

\* the value of `decayed` before the minimum-retention floor
decayed_value(in, cfg) ==
    LET decayed == FMul(in.importance, decay_factor(in, cfg))
    IN  IF RecencyParadox(in) THEN FMul(decayed, F(13, -1)) ELSE decayed

\* mutant of calculate: the guard on a negative age is missing
calculate_no_guard(in, cfg) ==
    StdMax(decayed_value(in, cfg), FMul(in.importance, cfg.min_retention))

\* mutant of calculate: the minimum-retention floor is missing
calculate_no_floor(in, cfg) ==
    IF FLt(in.hours_passed, Zero) THEN in.importance ELSE decayed_value(in, cfg)

\* double calculate(const DecayInput& input, const DecayConfig& config)
calculate(in, cfg) ==
    IF FLt(in.hours_passed, Zero)
    THEN in.importance
    ELSE StdMax(decayed_value(in, cfg), FMul(in.importance, cfg.min_retention))

(* ---------------------------------------------------------------------- *)
(* Inputs                                                                  *)
(* ---------------------------------------------------------------------- *)

Importances == {F(0, 0), F(5, -1), F(1, 0)}

Hours == {F(-10, 0), F(0, 0), F(100, 0), F(168, 0), F(169, 0), F(1000, 0)}

AccessCounts == {0, 5}

ConnectionCounts == {0, 3, 12}

LastAccessHours == {F(-1, 0), F(0, 0), F(12, 0), F(24, 0)}

MemoryTypes == {-1, 2, 7}

ChannelMentions == {0, 2}

DecayInputs ==
    [importance : Importances, hours_passed : Hours, access_count : AccessCounts,
     connection_count : ConnectionCounts, last_access_hours : LastAccessHours,
     memory_type : MemoryTypes, channel_mentions : ChannelMentions]

\* struct DecayConfig with its default member initializers; channel_diversity_k
\* is set by the caller (axnmihn_native.cpp, def_readwrite), here to 0.2 or 0
DefaultConfig ==
    [base_decay_rate |-> F(2, -3), min_retention |-> F(1, -1),
     access_stability_k |-> F(3, -1), relation_resistance_k |-> F(1, -1),
     channel_diversity_k |-> F(2, -1),
     type_multipliers |-> [t \in 0..3 |->
         IF t = 0 THEN F(1, 0) ELSE IF t = 1 THEN F(3, -1)
         ELSE IF t = 2 THEN F(5, -1) ELSE F(7, -1)]]

DecayConfigs ==
    {[DefaultConfig EXCEPT !.min_retention = r] : r \in {F(0, 0), F(1, -1), F(1, 0)}}
        \cup {[DefaultConfig EXCEPT !.channel_diversity_k = F(0, 0)]}

(* ---------------------------------------------------------------------- *)
(* The state of the calls that are not in progress                         *)
(* ---------------------------------------------------------------------- *)

NoInput ==
    [importance |-> Zero, hours_passed |-> Zero, access_count |-> 0,
     connection_count |-> 0, last_access_hours |-> Zero, memory_type |-> 0,
     channel_mentions |-> 0]

\* an element of an output array that no store has reached yet
Unwritten == [m |-> 0, e |-> -1]

IdleCalc == input = NoInput /\ result = Zero /\ input2 = NoInput /\ result2 = Zero

IdleBatch == inputs = <<>> /\ results = <<>> /\ j = 0 /\ end = 0

IdleArrays ==
    /\ arr = [importance |-> <<>>, hours_passed |-> <<>>, access_count |-> <<>>,
              connection_count |-> <<>>, last_access_hours |-> <<>>,
              memory_type |-> <<>>, channel_mentions |-> <<>>]
    /\ n = 0
    /\ output = <<>>

IdleCos == va = <<>> /\ vb = <<>> /\ cos = Zero

IdleCosBatch ==
    /\ query = <<>>
    /\ corpus = <<>>
    /\ n_vectors = 0
    /\ dim = 0
    /\ query_norm = Zero
    /\ v = 0
    /\ scores = <<>>

IdleDup ==
    /\ embeddings = <<>>
    /\ threshold = Zero
    /\ norms = <<>>
    /\ duplicates = <<>>

IdleNumpy ==
    /\ np_args = arr
    /\ raised = FALSE

IdleBfs ==
    /\ start_nodes = <<>>
    /\ max_depth = 0
    /\ visited = {}
    /\ frontier = <<>>

IdleComponents ==
    /\ n_nodes = 0
    /\ component_ids = <<>>
    /\ current_component = 0
    /\ node = 0
    /\ queue = <<>>

IdleGraph ==
    /\ adjacency = <<>>
    /\ pushes = <<>>
    /\ IdleBfs
    /\ IdleComponents

IdleUtil ==
    /\ IdleDup
    /\ IdleNumpy
    /\ IdleGraph
    /\ strings = <<>>

IdleDecay ==
    /\ config = DefaultConfig
    /\ i = 0
    /\ written = <<>>
    /\ IdleCalc
    /\ IdleBatch
    /\ IdleArrays

(* ---------------------------------------------------------------------- *)
(* calculate, called once and once more for the same record when older     *)
(* ---------------------------------------------------------------------- *)

InitCalc ==
    /\ pc = "calculate"
    /\ avx2 = FALSE
    /\ config \in DecayConfigs
    /\ input \in DecayInputs
    /\ result = Zero
    /\ input2 = input
    /\ result2 = Zero
    /\ i = 0
    /\ written = <<>>
    /\ IdleBatch
    /\ IdleArrays
    /\ IdleCos
    /\ IdleCosBatch
    /\ IdleUtil

Calculate ==
    /\ pc = "calculate"
    /\ result' = calculate(input, config)
    /\ pc' = "done"
    /\ UNCHANGED <<avx2, config, input, input2, result2, i, written, batchVars, arrayVars, cosVars, cosBatchVars, utilVars>>

CalculateLater ==
    /\ pc = "done"
    /\ \E h \in Hours :
          /\ FLe(input.hours_passed, h)
          /\ input2' = [input EXCEPT !.hours_passed = h]
    /\ result2' = calculate(input2', config)
    /\ pc' = "later"
    /\ UNCHANGED <<avx2, config, input, result, i, written, batchVars, arrayVars, cosVars, cosBatchVars, utilVars>>

NextCalc == Calculate \/ CalculateLater

SpecCalc == InitCalc /\ [][NextCalc]_vars

(* ---------------------------------------------------------------------- *)
(* Properties of calculate                                                 *)
(* ---------------------------------------------------------------------- *)

\* C1: with hours_passed < 0, calculate returns exactly input.importance,
\* whatever the other fields and the config are (no decay, no recency boost,
\* no minimum-retention floor).
C1_NegativeAgeReturnsImportance ==
    /\ (pc \in {"done", "later"} /\ FLt(input.hours_passed, Zero))
          => result = input.importance
    /\ (pc = "later" /\ FLt(input2.hours_passed, Zero))
          => result2 = input2.importance

\* a call with a negative age whose other fields would give a boost and a
\* floor different from the importance
C1_Witness ==
    /\ pc = "done"
    /\ FLt(input.hours_passed, Zero)
    /\ input.importance = F(5, -1)
    /\ input.last_access_hours = F(12, 0)
    /\ config.min_retention = Zero
    /\ result = F(5, -1)

\* C2: for hours_passed >= 0, importance in [0,1], non-negative counts and
\* 0 <= min_retention <= 1, calculate returns at least
\* importance * min_retention, with or without the recency boost.
C2_MinimumRetentionFloor ==
    /\ (pc \in {"done", "later"} /\ FGe(input.hours_passed, Zero))
          => FGe(result, FMul(input.importance, config.min_retention))
    /\ (pc = "later" /\ FGe(input2.hours_passed, Zero))
          => FGe(result2, FMul(input2.importance, config.min_retention))

\* the floor decides the result although the recency boost was applied
C2_Witness ==
    /\ pc = "done"
    /\ RecencyParadox(input)
    /\ FGt(input.importance, Zero)
    /\ FLt(decayed_value(input, config), FMul(input.importance, config.min_retention))
    /\ result = FMul(input.importance, config.min_retention)

\* C6: two inputs that differ only in hours_passed, 0 <= h1 <= h2, neither in
\* the recency-paradox window (h2 <= 168, or last_access_hours < 0, or
\* last_access_hours >= 24): the score at h2 is at most the score at h1.
C6_MonotoneInAge ==
    (/\ pc = "later"
     /\ FGe(input.hours_passed, Zero)
     /\ FLe(input.hours_passed, input2.hours_passed)
     /\ \/ FLe(input2.hours_passed, F(168, 0))
        \/ FLt(input.last_access_hours, Zero)
        \/ FGe(input.last_access_hours, F(24, 0)))
    => FLe(result2, result)

\* an older copy of a record, at the edge of the window, scores strictly less
C6_Witness ==
    /\ pc = "later"
    /\ input.hours_passed = F(100, 0)
    /\ input2.hours_passed = F(168, 0)
    /\ input.last_access_hours = F(12, 0)
    /\ FLt(result2, result)

\* C17: in calculate with hours_passed >= 0, the pre-floor decayed value is
\* multiplied by 1.3 if and only if last_access_hours >= 0 and
\* hours_passed > 168 and last_access_hours < 24 (so not at hours_passed
\* = 168, not at last_access_hours = 24, not for the sentinel -1, but at
\* last_access_hours = 0), and the multiplication comes before the
\* minimum-retention floor: the result is max(1.3 * decayed, floor) in the
\* window and max(decayed, floor) outside it.
C17_RecencyBoostExactlyInWindow ==
    (pc \in {"done", "later"} /\ FGe(input.hours_passed, Zero)) =>
        LET decayed == FMul(input.importance, decay_factor(input, config))
            floor == FMul(input.importance, config.min_retention)
            window == /\ FGe(input.last_access_hours, Zero)
                      /\ FGt(input.hours_passed, F(168, 0))
                      /\ FLt(input.last_access_hours, F(24, 0))
        IN  /\ window => result = StdMax(FMul(decayed, F(13, -1)), floor)
            /\ ~window => result = StdMax(decayed, floor)
            /\ input.hours_passed = F(168, 0) => result = StdMax(decayed, floor)
            /\ input.last_access_hours = F(24, 0) => result = StdMax(decayed, floor)
            /\ input.last_access_hours = F(-1, 0) => result = StdMax(decayed, floor)
            /\ (input.last_access_hours = Zero /\ FGt(input.hours_passed, F(168, 0)))
                  => result = StdMax(FMul(decayed, F(13, -1)), floor)

\* a record last accessed exactly 0 hours ago and older than a week got the
\* boost, and the boosted value, not the floor, is the result
C17_Witness ==
    /\ pc = "done"
    /\ input.last_access_hours = Zero
    /\ input.hours_passed = F(169, 0)
    /\ result = FMul(FMul(input.importance, decay_factor(input, config)), F(13, -1))
    /\ FGt(result, FMul(input.importance, decay_factor(input, config)))
    /\ FGt(result, FMul(input.importance, config.min_retention))

\* C18: for valid inputs (importance >= 0, hours_passed >= 0, non-negative
\* counts and config factors, min_retention <= 1) calculate never returns
\* more than 1.3 * importance; it returns more than importance only when the
\* recency-paradox condition holds and the decay factor
\* exp(-effective_rate * hours_passed) exceeds 1/1.3; without the recency
\* boost the result is at most importance.
C18_BoostedResultIsBounded ==
    (pc \in {"done", "later"} /\ FGe(input.hours_passed, Zero)) =>
        LET window == /\ FGe(input.last_access_hours, Zero)
                      /\ FGt(input.hours_passed, F(168, 0))
                      /\ FLt(input.last_access_hours, F(24, 0))
        IN  /\ FLe(result, FMul(F(13, -1), input.importance))
            /\ FGt(result, input.importance) =>
                  /\ window
                  /\ FGt(decay_factor(input, config), FDiv(One, F(13, -1)))
            /\ ~window => FLe(result, input.importance)

\* a boosted record older than a week came back above its importance
C18_Witness ==
    /\ pc = "done"
    /\ FGt(input.hours_passed, F(168, 0))
    /\ FGt(result, input.importance)
    /\ FLt(decay_factor(input, config), One)

(* ---------------------------------------------------------------------- *)
(* decay.cpp: calculate_batch                                              *)
(* ---------------------------------------------------------------------- *)

\* const size_t chunk_size = 64
ChunkSize == 64

Min(x, y) == IF y < x THEN y ELSE x

\* mutant of ChunkEnd: the chunk ends one element early
ChunkEndShort(start, size) == Min(start + ChunkSize - 1, size)

\* size_t end = std::min(i + chunk_size, inputs.size())
ChunkEnd(start, size) == Min(start + ChunkSize, size)

\* records that differ in every field, among them a negative age, a record in
\* the recency-paradox window, a saturated resistance, types out of 0..3
RecordPool ==
    << [importance |-> F(1, 0), hours_passed |-> F(1000, 0), access_count |-> 0,
        connection_count |-> 0, last_access_hours |-> F(-1, 0), memory_type |-> 0,
        channel_mentions |-> 0],
       [importance |-> F(5, -1), hours_passed |-> F(100, 0), access_count |-> 5,
        connection_count |-> 3, last_access_hours |-> F(12, 0), memory_type |-> 1,
        channel_mentions |-> 2],
       [importance |-> F(8, -1), hours_passed |-> F(-10, 0), access_count |-> 0,
        connection_count |-> 0, last_access_hours |-> F(-1, 0), memory_type |-> 0,
        channel_mentions |-> 0],
       [importance |-> F(5, -1), hours_passed |-> F(169, 0), access_count |-> 0,
        connection_count |-> 0, last_access_hours |-> F(0, 0), memory_type |-> 3,
        channel_mentions |-> 0],
       [importance |-> F(1, 0), hours_passed |-> F(1000, 0), access_count |-> 5,
        connection_count |-> 12, last_access_hours |-> F(24, 0), memory_type |-> 7,
        channel_mentions |-> 2],
       [importance |-> F(1, 0), hours_passed |-> F(168, 0), access_count |-> 0,
        connection_count |-> 3, last_access_hours |-> F(12, 0), memory_type |-> -1,
        channel_mentions |-> 2],
       [importance |-> F(5, -1), hours_passed |-> F(1000, 0), access_count |-> 0,
        connection_count |-> 0, last_access_hours |-> F(12, 0), memory_type |-> 2,
        channel_mentions |-> 0] >>

\* a batch of len records: the pool repeated, starting at position seed
BatchInput(len, seed) ==
    [k \in 1..len |-> RecordPool[((seed + k - 1) % Len(RecordPool)) + 1]]

BatchSizes == {0, 1, ChunkSize - 1, ChunkSize, ChunkSize + 1, 2 * ChunkSize, MaxBatch}

InitBatch ==
    /\ pc = "outer"
    /\ avx2 = FALSE
    /\ config = DefaultConfig
    /\ inputs \in {BatchInput(len, seed) : len \in BatchSizes, seed \in 0..MaxSeed}
    /\ results = [k \in 1..Len(inputs) |-> Zero]
    /\ written = [k \in 1..Len(inputs) |-> 0]
    /\ i = 0
    /\ j = 0
    /\ end = 0
    /\ IdleCalc
    /\ IdleArrays
    /\ IdleCos
    /\ IdleCosBatch
    /\ IdleUtil

\* for (size_t i = 0; i < inputs.size(); i += chunk_size): the start of a chunk
BatchChunk ==
    /\ pc = "outer"
    /\ i < Len(inputs)
    /\ end' = ChunkEnd(i, Len(inputs))
    /\ j' = i
    /\ pc' = "inner"
    /\ UNCHANGED <<avx2, config, i, written, inputs, results, calcVars, arrayVars, cosVars, cosBatchVars, utilVars>>

\* results[j] = calculate(inputs[j], config); ++j
BatchStore ==
    /\ pc = "inner"
    /\ j < end
    /\ results' = [results EXCEPT ![j + 1] = calculate(inputs[j + 1], config)]
    /\ written' = [written EXCEPT ![j + 1] = @ + 1]
    /\ j' = j + 1
    /\ UNCHANGED <<pc, avx2, config, i, inputs, end, calcVars, arrayVars, cosVars, cosBatchVars, utilVars>>

\* the inner loop ends: i += chunk_size
BatchChunkEnd ==
    /\ pc = "inner"
    /\ ~(j < end)
    /\ i' = i + ChunkSize
    /\ pc' = "outer"
    /\ UNCHANGED <<avx2, config, written, batchVars, calcVars, arrayVars, cosVars, cosBatchVars, utilVars>>

\* return results
BatchReturn ==
    /\ pc = "outer"
    /\ ~(i < Len(inputs))
    /\ pc' = "done"
    /\ UNCHANGED <<avx2, config, i, written, batchVars, calcVars, arrayVars, cosVars, cosBatchVars, utilVars>>

NextBatch == BatchChunk \/ BatchStore \/ BatchChunkEnd \/ BatchReturn

SpecBatch == InitBatch /\ [][NextBatch]_vars

\* C5: calculate_batch returns exactly inputs.size() scores, every index is
\* stored exactly once, and results[k] = calculate(inputs[k], config), for
\* lengths 0, below, equal to and above the chunk size and not a multiple of it.
C5_BatchIsElementwise ==
    /\ Len(results) = Len(inputs)
    /\ \A k \in 1..Len(inputs) : written[k] <= 1
    /\ pc = "done" =>
          \A k \in 1..Len(inputs) :
              /\ written[k] = 1
              /\ results[k] = calculate(inputs[k], config)

\* a returned batch of two full chunks and a partial one
C5_Witness ==
    /\ pc = "done"
    /\ Len(inputs) > 2 * ChunkSize
    /\ Len(inputs) % ChunkSize # 0
    /\ results[ChunkSize] # results[ChunkSize + 1]
    /\ results[Len(inputs)] = calculate(inputs[Len(inputs)], config)
    /\ results[Len(inputs)] # Zero

(* ---------------------------------------------------------------------- *)
(* decay.cpp: calculate_batch_arrays                                       *)
(* ---------------------------------------------------------------------- *)

\* _mm256_min_pd(a, b) == a < b ? a : b ; _mm256_max_pd(a, b) == a > b ? a : b
MmMin(x, y) == IF FLt(x, y) THEN x ELSE y

MmMax(x, y) == IF FGt(x, y) THEN x ELSE y

\* the seven parallel arrays that hold the records of a batch
ArraysOf(batch) ==
    [importance        |-> [k \in 1..Len(batch) |-> batch[k].importance],
     hours_passed      |-> [k \in 1..Len(batch) |-> batch[k].hours_passed],
     access_count      |-> [k \in 1..Len(batch) |-> batch[k].access_count],
     connection_count  |-> [k \in 1..Len(batch) |-> batch[k].connection_count],
     last_access_hours |-> [k \in 1..Len(batch) |-> batch[k].last_access_hours],
     memory_type       |-> [k \in 1..Len(batch) |-> batch[k].memory_type],
     channel_mentions  |-> [k \in 1..Len(batch) |-> batch[k].channel_mentions]]

\* the record made of the entries at position k (from 1) of all seven arrays:
\* DecayInput input{importance[i], ..., memory_type[i], channel_mentions[i]}
RecordAt(ar, k) ==
    [importance |-> ar.importance[k], hours_passed |-> ar.hours_passed[k],
     access_count |-> ar.access_count[k], connection_count |-> ar.connection_count[k],
     last_access_hours |-> ar.last_access_hours[k], memory_type |-> ar.memory_type[k],
     channel_mentions |-> ar.channel_mentions[k]]

\* the scalar fallback: DecayInput input{importance[i], ..., memory_type[i]},
\* six initializers, so that channel_mentions is left at zero
FallbackRecordAt(ar, k) ==
    [importance |-> ar.importance[k], hours_passed |-> ar.hours_passed[k],
     access_count |-> ar.access_count[k], connection_count |-> ar.connection_count[k],
     last_access_hours |-> ar.last_access_hours[k], memory_type |-> ar.memory_type[k],
     channel_mentions |-> 0]

\* one lane of the AVX2 loop body, for the element at position k (from 1)
LaneValue(ar, k, cfg) ==
    LET imp == ar.importance[k]
        hours == ar.hours_passed[k]
        cc == FromInt(ar.connection_count[k])
        lah == ar.last_access_hours[k]
        stability == FAdd(One, FMul(cfg.access_stability_k,
                                    fast_log1p(FromInt(ar.access_count[k]))))
        resistance == MmMin(FMul(cc, cfg.relation_resistance_k), One)
        tm == cfg.type_multipliers[type_idx(ar.memory_type[k])]
        cb == FDiv(One, FAdd(One, FMul(cfg.channel_diversity_k,
                                       FromInt(ar.channel_mentions[k]))))
        eff_rate == FMul(FDiv(FMul(FMul(cfg.base_decay_rate, tm), cb), stability),
                         FSub(One, resistance))
        decay == fast_exp_neg(FMul(eff_rate, hours))
        decayed == FMul(imp, decay)
        boosted == IF FGe(lah, Zero) /\ FGt(hours, F(168, 0)) /\ FLt(lah, F(24, 0))
                   THEN FMul(decayed, F(13, -1)) ELSE decayed
    IN  MmMax(boosted, FMul(imp, cfg.min_retention))

InitArrays ==
    /\ pc = "arrays"
    /\ avx2 \in BOOLEAN
    /\ config \in DecayConfigs
    /\ n \in 0..MaxArray
    /\ \E seed \in 0..(Len(RecordPool) - 1) : arr = ArraysOf(BatchInput(n, seed))
    /\ output = [k \in 1..n |-> Unwritten]
    /\ written = [k \in 1..n |-> 0]
    /\ i = 0
    /\ IdleCalc
    /\ IdleBatch
    /\ IdleCos
    /\ IdleCosBatch
    /\ IdleUtil

\* #ifdef HAS_AVX2: for (; i + 4 <= n; i += 4), one group of four lanes
LaneGroup ==
    /\ pc = "arrays"
    /\ avx2
    /\ i + 4 <= n
    /\ output' = [k \in 1..n |->
                     IF k \in (i + 1)..(i + 4) THEN LaneValue(arr, k, config)
                     ELSE output[k]]
    /\ written' = [k \in 1..n |->
                     IF k \in (i + 1)..(i + 4) THEN written[k] + 1 ELSE written[k]]
    /\ i' = i + 4
    /\ UNCHANGED <<pc, avx2, config, arr, n, calcVars, batchVars, cosVars, cosBatchVars, utilVars>>

\* #ifdef HAS_AVX2: for (; i < n; ++i), the remaining elements
Remainder ==
    /\ pc = "arrays"
    /\ avx2
    /\ ~(i + 4 <= n)
    /\ i < n
    /\ output' = [output EXCEPT ![i + 1] = calculate(RecordAt(arr, i + 1), config)]
    /\ written' = [written EXCEPT ![i + 1] = @ + 1]
    /\ i' = i + 1
    /\ UNCHANGED <<pc, avx2, config, arr, n, calcVars, batchVars, cosVars, cosBatchVars, utilVars>>

\* #else: for (size_t i = 0; i < n; ++i), the scalar fallback
ScalarFallback ==
    /\ pc = "arrays"
    /\ ~avx2
    /\ i < n
    /\ output' = [output EXCEPT ![i + 1] =
                     calculate(FallbackRecordAt(arr, i + 1), config)]
    /\ written' = [written EXCEPT ![i + 1] = @ + 1]
    /\ i' = i + 1
    /\ UNCHANGED <<pc, avx2, config, arr, n, calcVars, batchVars, cosVars, cosBatchVars, utilVars>>

ArraysReturn ==
    /\ pc = "arrays"
    /\ ~(i < n)
    /\ pc' = "done"
    /\ UNCHANGED <<avx2, config, i, written, arrayVars, calcVars, batchVars, cosVars, cosBatchVars, utilVars>>

NextArrays == LaneGroup \/ Remainder \/ ScalarFallback \/ ArraysReturn

SpecArrays == InitArrays /\ [][NextArrays]_vars

\* C3: in the AVX2 build, output[k] = calculate(record k, config) for every
\* k < n, in a lane group or in the remainder loop.
C3_VectorizedEqualsScalar ==
    (pc = "done" /\ avx2) =>
        \A k \in 1..n : output[k] = calculate(RecordAt(arr, k), config)

\* C4: in the build without AVX2, output[k] = calculate(record k, config), the
\* record being made of the k-th entries of all seven arrays.
C4_FallbackEqualsScalar ==
    (pc = "done" /\ ~avx2) =>
        \A k \in 1..n : output[k] = calculate(RecordAt(arr, k), config)

\* the arrays with every memory type below 0 replaced by 0 and every memory
\* type above 3 replaced by 3
InRangeTypes(ar) ==
    [ar EXCEPT !.memory_type =
        [k \in 1..Len(ar.memory_type) |->
            IF ar.memory_type[k] < 0 THEN 0
            ELSE IF ar.memory_type[k] > 3 THEN 3
            ELSE ar.memory_type[k]]]

\* the score of element k (from 1) by the path that computes it: a lane of a
\* group of four, the remainder loop or the scalar fallback
ElementScore(ar, k, size, cfg, build) ==
    IF build /\ k <= 4 * (size \div 4) THEN LaneValue(ar, k, cfg)
    ELSE IF build THEN calculate(RecordAt(ar, k), cfg)
    ELSE calculate(FallbackRecordAt(ar, k), cfg)

\* C13: for every integer memory_type, also negative or above 3, the index
\* used to read type_multipliers is within 0..3: a value below 0 reads entry
\* 0 and a value above 3 reads entry 3, so every returned score is the score
\* of the same element with the in-range type, in calculate (remainder loop
\* and scalar fallback) and in every lane of calculate_batch_arrays.
C13_TypeIndexIsClamped ==
    pc = "done" =>
        \A k \in 1..n :
            /\ type_idx(arr.memory_type[k]) \in 0..3
            /\ arr.memory_type[k] < 0 => type_idx(arr.memory_type[k]) = 0
            /\ arr.memory_type[k] > 3 => type_idx(arr.memory_type[k]) = 3
            /\ output[k] = ElementScore(InRangeTypes(arr), k, n, config, avx2)

\* an AVX2 call returned with a memory type above 3 in a lane and a memory
\* type below 0 in the remainder loop
C13_Witness ==
    /\ pc = "done"
    /\ avx2
    /\ \E k \in 1..(4 * (n \div 4)) : arr.memory_type[k] > 3
    /\ \E k \in (4 * (n \div 4) + 1)..n : arr.memory_type[k] < 0

(* ---------------------------------------------------------------------- *)
(* vector_ops.cpp: the sums of products                                    *)
(* ---------------------------------------------------------------------- *)

\* for (; k <= last; ++k) acc += x[k] * y[k]
RECURSIVE ScalarLoop(_, _, _, _, _)
ScalarLoop(x, y, k, last, acc) ==
    IF k > last THEN acc
    ELSE ScalarLoop(x, y, k + 1, last, FAdd(acc, FMul(x[k], y[k])))

\* _mm256_fmadd_pd, one lane: x * y + z (the model rounds the product too)
Fma(x, y, z) == FAdd(FMul(x, y), z)

\* one lane of `sum = _mm256_fmadd_pd(vx, vy, sum)` over the groups g..groups-1
RECURSIVE LaneLoop(_, _, _, _, _, _)
LaneLoop(x, y, lane, g, groups, acc) ==
    IF g >= groups THEN acc
    ELSE LaneLoop(x, y, lane, g + 1, groups,
                  Fma(x[4 * g + lane + 1], y[4 * g + lane + 1], acc))

\* the AVX2 sum: four lanes, tmp[0] + tmp[1] + tmp[2] + tmp[3], the remainder
AvxSum(x, y) ==
    LET groups == Len(x) \div 4
        tmp(lane) == LaneLoop(x, y, lane, 0, groups, Zero)
    IN  ScalarLoop(x, y, 4 * groups + 1, Len(x),
                   FAdd(FAdd(FAdd(tmp(0), tmp(1)), tmp(2)), tmp(3)))

\* the sum of x[k] * y[k] as the build computes it (#ifdef HAS_AVX2 ... #else)
SumOfProducts(x, y, build) ==
    IF build THEN AvxSum(x, y) ELSE ScalarLoop(x, y, 1, Len(x), Zero)

\* the threshold 1e-10 of the zero-norm tests
NormEpsilon == F(1, -10)

(* ---------------------------------------------------------------------- *)
(* vector_ops.cpp: cosine_similarity                                       *)
(* ---------------------------------------------------------------------- *)

\* mutant of cosine_similarity: the test of the denominator is missing
cosine_similarity_no_guard(x, y, build) ==
    IF Len(x) # Len(y) \/ Len(x) = 0 THEN Zero
    ELSE FDiv(SumOfProducts(x, y, build),
              FMul(FSqrt(SumOfProducts(x, x, build)),
                   FSqrt(SumOfProducts(y, y, build))))

\* double cosine_similarity(const std::vector<double>& a, const std::vector<double>& b)
cosine_similarity(x, y, build) ==
    IF Len(x) # Len(y) \/ Len(x) = 0 THEN Zero
    ELSE LET dot == SumOfProducts(x, y, build)
             norm_a == SumOfProducts(x, x, build)
             norm_b == SumOfProducts(y, y, build)
             denom == FMul(FSqrt(norm_a), FSqrt(norm_b))
         IN  IF FLt(denom, NormEpsilon) THEN Zero ELSE FDiv(dot, denom)

\* the entries of the test vectors: zero, 1e-11, 1e-6, 1 and 1e12
Tiny == F(1, -11)

Small == F(1, -6)

Huge == F(1, 12)

\* entry k of the vector of a pattern
PatternEntry(pat, k) ==
    CASE pat = "zero"   -> Zero
      [] pat = "tiny"   -> Tiny
      [] pat = "small"  -> Small
      [] pat = "one"    -> One
      [] pat = "huge"   -> Huge
      [] pat = "first"  -> IF k = 1 THEN One ELSE Zero
      [] pat = "rest"   -> IF k = 1 THEN Zero ELSE One
      [] pat = "ramp"   -> FromInt(k)
      [] pat = "signs"  -> IF k % 2 = 1 THEN One ELSE FNeg(One)

Patterns == <<"zero", "tiny", "small", "one", "huge", "first", "rest", "ramp", "signs">>

PatternVector(pat, len) == [k \in 1..len |-> PatternEntry(pat, k)]

Vectors == {PatternVector(Patterns[p], len) : p \in 1..Len(Patterns), len \in 0..MaxDim}

IsZeroVector(x) == \A k \in 1..Len(x) : x[k] = Zero

\* ||x|| as the build computes it
NormOf(x, build) == FSqrt(SumOfProducts(x, x, build))

InitCos ==
    /\ pc = "cosine"
    /\ avx2 \in BOOLEAN
    /\ va \in Vectors
    /\ vb \in Vectors
    /\ cos = Zero
    /\ IdleDecay
    /\ IdleCosBatch
    /\ IdleUtil

Cosine ==
    /\ pc = "cosine"
    /\ cos' = cosine_similarity(va, vb, avx2)
    /\ pc' = "done"
    /\ UNCHANGED <<avx2, va, vb, decayVars, cosBatchVars, utilVars>>

NextCos == Cosine

SpecCos == InitCos /\ [][NextCos]_vars

C8_ZeroIffANormIsSmall ==
    (pc = "done" /\ Len(va) = Len(vb) /\ Len(va) > 0) =>
        LET dot == SumOfProducts(va, vb, avx2)
            na == NormOf(va, avx2)
            nb == NormOf(vb, avx2)
        IN  /\ (cos = Zero) <=>
                  (dot = Zero \/ FLt(na, NormEpsilon) \/ FLt(nb, NormEpsilon))
            /\ (FGe(na, NormEpsilon) /\ FGe(nb, NormEpsilon))
                  => cos = FDiv(dot, FMul(na, nb))

(* ---------------------------------------------------------------------- *)
(* vector_ops.cpp: cosine_similarity_batch                                 *)
(* ---------------------------------------------------------------------- *)

\* const double* vec = corpus + v * dim: row r (from 0) of the matrix
Row(mat, r, width) == [k \in 1..width |-> mat[r * width + k]]

\* the row-major matrix of `rows` rows: the patterns from position seed on
PatternMatrix(rows, width, seed) ==
    [q \in 1..(rows * width) |->
        PatternEntry(Patterns[((seed + ((q - 1) \div width)) % Len(Patterns)) + 1],
                     ((q - 1) % width) + 1)]

\* mutant of row_score: the zero-norm test is made on the product of the norms
row_score_product_test(qv, row, qnorm, build) ==
    LET dot == SumOfProducts(qv, row, build)
        vec_norm == FSqrt(SumOfProducts(row, row, build))
    IN  IF FLt(FMul(qnorm, vec_norm), NormEpsilon) THEN Zero
        ELSE FDiv(dot, FMul(qnorm, vec_norm))

\* the body of the loop over the rows: the value stored in results[v]
row_score(qv, row, qnorm, build) ==
    LET dot == SumOfProducts(qv, row, build)
        vec_norm_sq == SumOfProducts(row, row, build)
        vec_norm == FSqrt(vec_norm_sq)
    IN  IF FLt(vec_norm, NormEpsilon) THEN Zero
        ELSE FDiv(dot, FMul(qnorm, vec_norm))

\* double query_norm = std::sqrt(query_norm_sq), summed by a scalar loop
QueryNorm(qv) == FSqrt(ScalarLoop(qv, qv, 1, Len(qv), Zero))

InitCosBatch ==
    /\ pc = "cosine_batch"
    /\ avx2 \in BOOLEAN
    /\ dim \in 0..MaxDim
    /\ n_vectors \in 0..MaxRows
    /\ \E seed \in 0..(Len(Patterns) - 1) :
          corpus = PatternMatrix(n_vectors, dim, seed)
    /\ \E p \in 1..Len(Patterns), len \in {dim, dim + 1} :
          query = PatternVector(Patterns[p], len)
    /\ query_norm = Zero
    /\ v = 0
    /\ scores = <<>>
    /\ IdleDecay
    /\ IdleCos
    /\ IdleUtil

\* std::vector<double> results(n_vectors); if (query.size() != dim) return results
CosBatchWrongDim ==
    /\ pc = "cosine_batch"
    /\ Len(query) # dim
    /\ scores' = [k \in 1..n_vectors |-> Zero]
    /\ pc' = "done"
    /\ UNCHANGED <<avx2, query, corpus, n_vectors, dim, query_norm, v, decayVars, cosVars, utilVars>>

\* if (query_norm < 1e-10) return results
CosBatchZeroQuery ==
    /\ pc = "cosine_batch"
    /\ Len(query) = dim
    /\ FLt(QueryNorm(query), NormEpsilon)
    /\ scores' = [k \in 1..n_vectors |-> Zero]
    /\ query_norm' = QueryNorm(query)
    /\ pc' = "done"
    /\ UNCHANGED <<avx2, query, corpus, n_vectors, dim, v, decayVars, cosVars, utilVars>>

\* the query norm is computed once, before the loop over the rows
CosBatchStart ==
    /\ pc = "cosine_batch"
    /\ Len(query) = dim
    /\ ~FLt(QueryNorm(query), NormEpsilon)
    /\ scores' = [k \in 1..n_vectors |-> Zero]
    /\ query_norm' = QueryNorm(query)
    /\ v' = 0
    /\ pc' = "rows"
    /\ UNCHANGED <<avx2, query, corpus, n_vectors, dim, decayVars, cosVars, utilVars>>

\* for (size_t v = 0; v < n_vectors; ++v): one row
CosBatchRow ==
    /\ pc = "rows"
    /\ v < n_vectors
    /\ scores' = [scores EXCEPT ![v + 1] =
                     row_score(query, Row(corpus, v, dim), query_norm, avx2)]
    /\ v' = v + 1
    /\ UNCHANGED <<pc, avx2, query, corpus, n_vectors, dim, query_norm, decayVars, cosVars, utilVars>>

CosBatchReturn ==
    /\ pc = "rows"
    /\ ~(v < n_vectors)
    /\ pc' = "done"
    /\ UNCHANGED <<avx2, cosBatchVars, decayVars, cosVars, utilVars>>

NextCosBatch ==
    \/ CosBatchWrongDim
    \/ CosBatchZeroQuery
    \/ CosBatchStart
    \/ CosBatchRow
    \/ CosBatchReturn

SpecCosBatch == InitCosBatch /\ [][NextCosBatch]_vars

\* C9: cosine_similarity_batch returns exactly n_vectors scores; they are all
\* 0.0 when the query length differs from dim or the query norm is below
\* 1e-10; and a row whose own norm is below 1e-10 gets 0.0.
C9_BatchDegenerateGivesZeros ==
    pc = "done" =>
        /\ Len(scores) = n_vectors
        /\ (Len(query) # dim \/ FLt(QueryNorm(query), NormEpsilon))
              => \A r \in 1..n_vectors : scores[r] = Zero
        /\ \A r \in 1..n_vectors :
              FLt(NormOf(Row(corpus, r - 1, dim), avx2), NormEpsilon)
                 => scores[r] = Zero

\* a row of norm below 1e-10 scored 0.0 against a query of huge norm, next to
\* a row with a score other than 0.0
C9_Witness ==
    /\ pc = "done"
    /\ Len(query) = dim
    /\ dim >= 1
    /\ FGt(QueryNorm(query), One)
    /\ \E r \in 1..n_vectors :
          /\ ~IsZeroVector(Row(corpus, r - 1, dim))
          /\ FLt(NormOf(Row(corpus, r - 1, dim), avx2), NormEpsilon)
          /\ scores[r] = Zero
    /\ \E r \in 1..n_vectors : scores[r] # Zero

\* C10: for a query of length dim, cosine_similarity_batch(query, corpus)[r]
\* equals cosine_similarity(query, row r) for every row r.
C10_BatchEqualsPairwise ==
    (pc = "done" /\ Len(query) = dim) =>
        \A r \in 1..n_vectors :
            scores[r] = cosine_similarity(query, Row(corpus, r - 1, dim), avx2)

(* ---------------------------------------------------------------------- *)
(* vector_ops.cpp: find_duplicates_by_embedding                            *)
(* ---------------------------------------------------------------------- *)

\* norms[r]: the square root of the scalar sum of squares of row r (0-based)
row_norm(mat, r, width) ==
    FSqrt(ScalarLoop(Row(mat, r, width), Row(mat, r, width), 1, width, Zero))

\* `similarity` of the rows p and q: dot / (norms[p] * norms[q])
pair_similarity(mat, width, nrm, p, q, build) ==
    FDiv(SumOfProducts(Row(mat, p, width), Row(mat, q, width), build),
         FMul(nrm[p + 1], nrm[q + 1]))

\* mutant of similarity_reaches: a similarity equal to the threshold is left out
similarity_exceeds(sim, t) == FGt(sim, t)

\* the test `similarity >= threshold`
similarity_reaches(sim, t) == FGe(sim, t)

Thresholds == {Zero, F(9, -1), One}

InitDup ==
    /\ pc = "norms"
    /\ avx2 \in BOOLEAN
    /\ n \in 0..MaxRows
    /\ dim \in 0..MaxDim
    /\ \E seed \in 0..(Len(Patterns) - 1) :
          embeddings = PatternMatrix(n, dim, seed)
    /\ threshold \in Thresholds
    /\ norms = <<>>
    /\ duplicates = <<>>
    /\ i = 0
    /\ j = 0
    /\ config = DefaultConfig
    /\ written = <<>>
    /\ IdleCalc
    /\ inputs = <<>> /\ results = <<>> /\ end = 0
    /\ arr = [importance |-> <<>>, hours_passed |-> <<>>, access_count |-> <<>>,
              connection_count |-> <<>>, last_access_hours |-> <<>>,
              memory_type |-> <<>>, channel_mentions |-> <<>>]
    /\ output = <<>>
    /\ IdleCos
    /\ query = <<>> /\ corpus = <<>> /\ n_vectors = 0
    /\ query_norm = Zero /\ v = 0 /\ scores = <<>>
    /\ IdleNumpy
    /\ IdleGraph
    /\ strings = <<>>

dupRest == <<avx2, config, written, calcVars, inputs, results, end, arr, output, cosVars,
             query, corpus, n_vectors, query_norm, v, scores, numpyVars, graphVars, strings,
             n, dim, embeddings, threshold>>

\* the loop that fills `norms`
DupNorms ==
    /\ pc = "norms"
    /\ norms' = [r \in 1..n |-> row_norm(embeddings, r - 1, dim)]
    /\ i' = 0
    /\ pc' = "outer"
    /\ UNCHANGED <<j, duplicates, dupRest>>

\* outer loop: `if (norms[i] < 1e-10) continue;`
DupSkipRow ==
    /\ pc = "outer"
    /\ i < n
    /\ FLt(norms[i + 1], NormEpsilon)
    /\ i' = i + 1
    /\ UNCHANGED <<pc, j, norms, duplicates, dupRest>>

\* outer loop: the inner loop starts at j = i + 1
DupEnterRow ==
    /\ pc = "outer"
    /\ i < n
    /\ ~FLt(norms[i + 1], NormEpsilon)
    /\ j' = i + 1
    /\ pc' = "inner"
    /\ UNCHANGED <<i, norms, duplicates, dupRest>>

\* inner loop: `if (norms[j] < 1e-10) continue;`
DupSkipPair ==
    /\ pc = "inner"
    /\ j < n
    /\ FLt(norms[j + 1], NormEpsilon)
    /\ j' = j + 1
    /\ UNCHANGED <<pc, i, norms, duplicates, dupRest>>

\* inner loop: the similarity of the pair, appended when it reaches the threshold
DupPair ==
    /\ pc = "inner"
    /\ j < n
    /\ ~FLt(norms[j + 1], NormEpsilon)
    /\ LET similarity == pair_similarity(embeddings, dim, norms, i, j, avx2)
       IN  duplicates' = IF similarity_reaches(similarity, threshold)
                         THEN Append(duplicates, <<i, j, similarity>>)
                         ELSE duplicates
    /\ j' = j + 1
    /\ UNCHANGED <<pc, i, norms, dupRest>>

\* the inner loop ends: `++i`
DupRowEnd ==
    /\ pc = "inner"
    /\ j >= n
    /\ i' = i + 1
    /\ pc' = "outer"
    /\ UNCHANGED <<j, norms, duplicates, dupRest>>

DupReturn ==
    /\ pc = "outer"
    /\ i >= n
    /\ pc' = "done"
    /\ UNCHANGED <<i, j, norms, duplicates, dupRest>>

NextDup ==
    \/ DupNorms \/ DupSkipRow \/ DupEnterRow \/ DupSkipPair \/ DupPair
    \/ DupRowEnd \/ DupReturn

SpecDup == InitDup /\ [][NextDup]_vars

\* the pair (p, q) belongs to the result: both norms reach 1e-10 and the
\* similarity reaches the threshold
QualifiesAsDuplicate(p, q) ==
    /\ FGe(row_norm(embeddings, p, dim), NormEpsilon)
    /\ FGe(row_norm(embeddings, q, dim), NormEpsilon)
    /\ FGe(pair_similarity(embeddings, dim, norms, p, q, avx2), threshold)

\* C11: find_duplicates_by_embedding returns exactly the tuples (i, j, sim)
\* of the index pairs i < j < n whose two row norms are both at least 1e-10
\* and whose cosine similarity sim is at least the threshold (equality
\* included): every such pair is listed, nothing else is listed, and the
\* list is in strictly ascending order of (i, j), so that no pair is listed
\* twice and no (j, i) or (i, i) appears.
C11_DuplicatesAreExactlyTheQualifyingPairs ==
    pc = "done" /\ embeddings # <<>> =>
        /\ \A k \in 1..Len(duplicates) :
              LET t == duplicates[k]
              IN  /\ t[1] \in 0..(n - 1) /\ t[2] \in 0..(n - 1) /\ t[1] < t[2]
                  /\ QualifiesAsDuplicate(t[1], t[2])
                  /\ t[3] = pair_similarity(embeddings, dim, norms, t[1], t[2], avx2)
        /\ \A p \in 0..(n - 1), q \in 0..(n - 1) :
              p < q /\ QualifiesAsDuplicate(p, q) =>
                  \E k \in 1..Len(duplicates) :
                      duplicates[k][1] = p /\ duplicates[k][2] = q
        /\ \A k \in 1..(Len(duplicates) - 1) :
              \/ duplicates[k][1] < duplicates[k + 1][1]
              \/ /\ duplicates[k][1] = duplicates[k + 1][1]
                 /\ duplicates[k][2] < duplicates[k + 1][2]

\* a call on MaxRows rows returned a pair whose similarity equals the
\* threshold and left out a pair of rows of norm at least 1e-10 whose
\* similarity is below the threshold
C11_Witness ==
    /\ pc = "done"
    /\ n = MaxRows
    /\ \E k \in 1..Len(duplicates) : duplicates[k][3] = threshold
    /\ \E p \in 0..(n - 1), q \in 0..(n - 1) :
          /\ p < q
          /\ FGe(norms[p + 1], NormEpsilon) /\ FGe(norms[q + 1], NormEpsilon)
          /\ FLt(pair_similarity(embeddings, dim, norms, p, q, avx2), threshold)

(* ---------------------------------------------------------------------- *)
(* axnmihn_native.cpp: calculate_batch_numpy                               *)
(* ---------------------------------------------------------------------- *)

ArrayNames == {"importance", "hours_passed", "access_count", "connection_count",
               "last_access_hours", "memory_type", "channel_mentions"}

DoubleArrayNames == {"importance", "hours_passed", "last_access_hours"}

\* the first len entries of the array x
Prefix(x, len) == [k \in 1..len |-> x[k]]

\* the NumPy arguments: the arrays of a batch, the array `short` cut to `cut`
\* entries, all of them of ndim dimensions
NumpyArgs(batch, short, cut, ndim) ==
    [f \in ArrayNames \cup {"ndim"} |->
        IF f = "ndim" THEN ndim
        ELSE IF f = short THEN Prefix(ArraysOf(batch)[f], cut)
        ELSE ArraysOf(batch)[f]]

SameLengths(args) ==
    \A f \in ArrayNames, g \in ArrayNames : Len(args[f]) = Len(args[g])

\* what a read of memory past the end of an array can return
GarbageDoubles == {Zero, F(1000, 0)}

GarbageInts == {0, 7}

\* x[k] read through the raw pointer x.data(0): the entry when there is one,
\* whatever lies behind the buffer otherwise
ReadThroughPointer(x, k, garbage) == IF k <= Len(x) THEN x[k] ELSE garbage

\* the seven arrays as calculate_batch_arrays reads them, given size entries each
PointerView(args, size, gd, gi) ==
    [f \in ArrayNames |->
        [k \in 1..size |->
            ReadThroughPointer(args[f], k, IF f \in DoubleArrayNames THEN gd ELSE gi)]]

InitNumpy ==
    /\ pc = "numpy"
    /\ avx2 \in BOOLEAN
    /\ config = DefaultConfig
    /\ \E len \in 1..MaxDim, seed \in 0..(Len(RecordPool) - 1),
          short \in ArrayNames \cup {"none"}, ndim \in {1, 2} :
          np_args = NumpyArgs(BatchInput(len, seed), short, len - 1, ndim)
    /\ raised = FALSE
    /\ arr = [importance |-> <<>>, hours_passed |-> <<>>, access_count |-> <<>>,
              connection_count |-> <<>>, last_access_hours |-> <<>>,
              memory_type |-> <<>>, channel_mentions |-> <<>>]
    /\ n = 0
    /\ output = <<>>
    /\ written = <<>>
    /\ i = 0
    /\ IdleCalc
    /\ IdleBatch
    /\ IdleCos
    /\ IdleCosBatch
    /\ IdleDup
    /\ IdleGraph
    /\ strings = <<>>

numpyRest == <<avx2, config, calcVars, batchVars, cosVars, cosBatchVars, dupVars,
               graphVars, strings, np_args>>

\* unchecked<1>() throws std::domain_error for an array that is not 1-dimensional
NumpyWrongDimensions ==
    /\ pc = "numpy"
    /\ np_args.ndim # 1
    /\ raised' = TRUE
    /\ pc' = "done"
    /\ UNCHANGED <<arr, n, output, written, i, numpyRest>>

\* n = imp.size(); result(n); calculate_batch_arrays(n, imp.data(0), ...):
\* the lengths of the other six arrays are not looked at
NumpyCall ==
    /\ pc = "numpy"
    /\ np_args.ndim = 1
    /\ n' = Len(np_args.importance)
    /\ \E gd \in GarbageDoubles, gi \in GarbageInts :
          arr' = PointerView(np_args, n', gd, gi)
    /\ output' = [k \in 1..n' |-> Unwritten]
    /\ written' = [k \in 1..n' |-> 0]
    /\ i' = 0
    /\ pc' = "arrays"
    /\ UNCHANGED <<raised, numpyRest>>

\* a read past the end of a shorter array may also fault: the process dies
NumpyFault ==
    /\ pc = "numpy"
    /\ np_args.ndim = 1
    /\ \E f \in ArrayNames : Len(np_args[f]) < Len(np_args.importance)
    /\ pc' = "crashed"
    /\ UNCHANGED <<raised, arr, n, output, written, i, numpyRest>>

NextNumpy == NumpyWrongDimensions \/ NumpyCall \/ NumpyFault \/ NextArrays

SpecNumpy == InitNumpy /\ [][NextNumpy]_vars

\* C12: a batch-array decay call whose parallel input arrays do not all have
\* the same length fails with an error and produces no result: it does not
\* return scores, and so never scores computed from entries an array does
\* not have.
C12_MismatchedLengthsFail ==
    pc \in {"done", "crashed"} /\ np_args.ndim = 1 /\ ~SameLengths(np_args) =>
        raised /\ output = <<>>

(* ---------------------------------------------------------------------- *)
(* graph_ops.cpp: the adjacency maps                                       *)
(* ---------------------------------------------------------------------- *)

\* the largest node id that has an entry or occurs in a neighbour list
MaxNode == 2

\* the largest number of distinct edges of a map
MaxEdges == 2

\* the largest depth limit
MaxDepth == 2

GraphNodes == 0..MaxNode

\* the elements of a set of integers in ascending order
RECURSIVE SortedSeq(_)
SortedSeq(S) ==
    IF S = {} THEN <<>>
    ELSE LET least == CHOOSE x \in S : \A y \in S : x <= y
         IN  <<least>> \o SortedSeq(S \ {least})

EdgeSets == {E \in SUBSET (GraphNodes \X GraphNodes) : Cardinality(E) <= MaxEdges}

Shapes == {"plain", "doubled", "all_keys", "undirected"}

\* the std::unordered_map of the edges E.  "plain": the keys are the nodes that
\* have an edge; "doubled": every neighbour list holds each neighbour twice;
\* "all_keys": every node is a key, possibly of an empty list; "undirected":
\* every edge is entered in both directions
AdjacencyOf(E, shape) ==
    LET edges == IF shape = "undirected" THEN E \cup {<<e[2], e[1]>> : e \in E} ELSE E
        sources == IF shape = "all_keys" THEN GraphNodes ELSE {e[1] : e \in edges}
        once(u) == SortedSeq({e[2] : e \in {d \in edges : d[1] = u}})
    IN  [u \in sources |-> IF shape = "doubled" THEN once(u) \o once(u) ELSE once(u)]

\* the elements of a vector
Range(s) == {s[k] : k \in 1..Len(s)}

\* the nodes that occur in some neighbour list of a node of S
Successors(adj, S) ==
    {x \in UNION {Range(adj[u]) : u \in DOMAIN adj} :
        \E u \in S \cap DOMAIN adj : x \in Range(adj[u])}

NoPushes == [x \in 0..(MaxNode + 1) |-> 0]

(* ---------------------------------------------------------------------- *)
(* graph_ops.cpp: bfs_neighbors                                            *)
(* ---------------------------------------------------------------------- *)

\* mutant of mark_visited: a pushed node is not marked
mark_forgotten(seen, x) == seen

\* visited.insert(x)
mark_visited(seen, x) == seen \cup {x}

\* mutant of depth_exhausted: a node at depth max_depth is still expanded
depth_exceeded(depth, limit) == depth > limit

\* `if (depth >= max_depth) continue;`
depth_exhausted(depth, limit) == depth >= limit

\* for (size_t node : list) if not visited: insert it and push {node, depth},
\* from position k on; st = [seen, fr, cnt] is (visited, frontier, pushes)
RECURSIVE PushUnvisited(_, _, _, _)
PushUnvisited(list, k, depth, st) ==
    IF k > Len(list) THEN st
    ELSE IF list[k] \in st.seen THEN PushUnvisited(list, k + 1, depth, st)
    ELSE PushUnvisited(list, k + 1, depth,
                       [seen |-> mark_visited(st.seen, list[k]),
                        fr   |-> Append(st.fr, <<list[k], depth>>),
                        cnt  |-> [st.cnt EXCEPT ![list[k]] = @ + 1]])

StartLists ==
    {<<>>, <<0>>, <<0, 0>>, <<1, 0>>, <<MaxNode + 1>>, <<MaxNode, MaxNode + 1>>}

InitBfs ==
    /\ pc = "bfs_start"
    /\ avx2 = FALSE
    /\ \E E \in EdgeSets, shape \in Shapes : adjacency = AdjacencyOf(E, shape)
    /\ start_nodes \in StartLists
    /\ max_depth \in -1..MaxDepth
    /\ visited = {}
    /\ frontier = <<>>
    /\ pushes = NoPushes
    /\ IdleComponents
    /\ IdleDecay
    /\ IdleCos
    /\ IdleCosBatch
    /\ IdleDup
    /\ IdleNumpy
    /\ strings = <<>>

bfsRest == <<avx2, decayVars, cosVars, cosBatchVars, dupVars, numpyVars, strings,
             componentVars, adjacency, start_nodes, max_depth>>

\* the loop over start_nodes: every start node not yet visited is pushed at depth 0
BfsStart ==
    /\ pc = "bfs_start"
    /\ LET st == PushUnvisited(start_nodes, 1, 0,
                               [seen |-> visited, fr |-> frontier, cnt |-> pushes])
       IN  /\ visited' = st.seen
           /\ frontier' = st.fr
           /\ pushes' = st.cnt
    /\ pc' = "bfs"
    /\ UNCHANGED bfsRest

\* the node at the front has reached the depth limit: `continue`
BfsSkipDepth ==
    /\ pc = "bfs"
    /\ frontier # <<>>
    /\ depth_exhausted(Head(frontier)[2], max_depth)
    /\ frontier' = Tail(frontier)
    /\ UNCHANGED <<pc, visited, pushes, bfsRest>>

\* the node at the front has no entry in the map: `continue`
BfsSkipAbsent ==
    /\ pc = "bfs"
    /\ frontier # <<>>
    /\ ~depth_exhausted(Head(frontier)[2], max_depth)
    /\ Head(frontier)[1] \notin DOMAIN adjacency
    /\ frontier' = Tail(frontier)
    /\ UNCHANGED <<pc, visited, pushes, bfsRest>>

\* the unvisited neighbours of the node at the front are pushed one level deeper
BfsExpand ==
    /\ pc = "bfs"
    /\ frontier # <<>>
    /\ ~depth_exhausted(Head(frontier)[2], max_depth)
    /\ Head(frontier)[1] \in DOMAIN adjacency
    /\ LET st == PushUnvisited(adjacency[Head(frontier)[1]], 1, Head(frontier)[2] + 1,
                               [seen |-> visited, fr |-> Tail(frontier), cnt |-> pushes])
       IN  /\ visited' = st.seen
           /\ frontier' = st.fr
           /\ pushes' = st.cnt
    /\ UNCHANGED <<pc, bfsRest>>

BfsReturn ==
    /\ pc = "bfs"
    /\ frontier = <<>>
    /\ pc' = "done"
    /\ UNCHANGED <<visited, frontier, pushes, bfsRest>>

NextBfs == BfsStart \/ BfsSkipDepth \/ BfsSkipAbsent \/ BfsExpand \/ BfsReturn

SpecBfs == InitBfs /\ [][NextBfs]_vars

\* the nodes at directed distance at most depth from a node of S
RECURSIVE Within(_, _, _)
Within(adj, S, depth) ==
    IF depth <= 0 THEN S ELSE Within(adj, S \cup Successors(adj, S), depth - 1)

\* there is a directed path of exactly len edges from x to y
RECURSIVE PathOfLength(_, _, _, _)
PathOfLength(adj, x, y, len) ==
    IF len = 0 THEN x = y
    ELSE \E z \in Successors(adj, {x}) : PathOfLength(adj, z, y, len - 1)

\* C14: bfs_neighbors returns exactly the set of nodes whose shortest
\* directed-path distance from at least one start node is at most max_depth:
\* every start node is in it (also one that has no entry in the map), a node
\* at distance max_depth + 1 or more from every start node is not, and for
\* max_depth <= 0 the result is exactly the set of start nodes.
C14_BfsReturnsNodesWithinDepth ==
    pc = "done" =>
        /\ \A x \in 0..(MaxNode + 1) :
              x \in visited <=>
                  \/ x \in Range(start_nodes)
                  \/ \E s \in Range(start_nodes), len \in 1..max_depth :
                        PathOfLength(adjacency, s, x, len)
        /\ visited = Within(adjacency, Range(start_nodes), max_depth)
        /\ max_depth <= 0 => visited = Range(start_nodes)

\* a search returned that reached a node at distance max_depth and left out
\* a node at distance max_depth + 1
C14_Witness ==
    /\ pc = "done"
    /\ max_depth >= 1
    /\ \E x \in visited : x \notin Within(adjacency, Range(start_nodes), max_depth - 1)
    /\ Within(adjacency, Range(start_nodes), max_depth + 1) # visited

(* ---------------------------------------------------------------------- *)
(* graph_ops.cpp: find_connected_components                                *)
(* ---------------------------------------------------------------------- *)

\* mutant of next_component: the label is not advanced after a component
same_component(c) == c

\* ++current_component
next_component(c) == c + 1

\* for (size_t neighbor : list) if (neighbor < size && ids[neighbor] == -1):
\* label it and push it, from position k on; st = [ids, qu, cnt] is
\* (component_ids, q, pushes)
RECURSIVE LabelUnlabelled(_, _, _, _, _)
LabelUnlabelled(list, k, size, label, st) ==
    IF k > Len(list) THEN st
    ELSE IF list[k] < size /\ st.ids[list[k] + 1] = -1
    THEN LabelUnlabelled(list, k + 1, size, label,
                         [ids |-> [st.ids EXCEPT ![list[k] + 1] = label],
                          qu  |-> Append(st.qu, list[k]),
                          cnt |-> [st.cnt EXCEPT ![list[k]] = @ + 1]])
    ELSE LabelUnlabelled(list, k + 1, size, label, st)

InitComponents ==
    /\ pc = "components"
    /\ avx2 = FALSE
    /\ \E E \in EdgeSets, shape \in Shapes : adjacency = AdjacencyOf(E, shape)
    /\ n_nodes \in 0..(MaxNode + 2)
    /\ component_ids = [k \in 1..n_nodes |-> -1]
    /\ current_component = 0
    /\ node = 0
    /\ queue = <<>>
    /\ pushes = NoPushes
    /\ IdleBfs
    /\ IdleDecay
    /\ IdleCos
    /\ IdleCosBatch
    /\ IdleDup
    /\ IdleNumpy
    /\ strings = <<>>

componentRest == <<avx2, decayVars, cosVars, cosBatchVars, dupVars, numpyVars, strings,
                   bfsVars, adjacency, n_nodes>>

\* outer loop: `if (component_ids[node] != -1) continue;`
ComponentsSkip ==
    /\ pc = "components"
    /\ node < n_nodes
    /\ component_ids[node + 1] # -1
    /\ node' = node + 1
    /\ UNCHANGED <<pc, component_ids, current_component, queue, pushes, componentRest>>

\* outer loop: an unlabelled node is pushed and takes the current label
ComponentsSeed ==
    /\ pc = "components"
    /\ node < n_nodes
    /\ component_ids[node + 1] = -1
    /\ queue' = <<node>>
    /\ pushes' = [pushes EXCEPT ![node] = @ + 1]
    /\ component_ids' = [component_ids EXCEPT ![node + 1] = current_component]
    /\ pc' = "component"
    /\ UNCHANGED <<node, current_component, componentRest>>

\* inner loop: the node at the front has no entry in the map: `continue`
ComponentsPopAbsent ==
    /\ pc = "component"
    /\ queue # <<>>
    /\ Head(queue) \notin DOMAIN adjacency
    /\ queue' = Tail(queue)
    /\ UNCHANGED <<pc, node, component_ids, current_component, pushes, componentRest>>

\* inner loop: the unlabelled neighbours below n_nodes of the node at the
\* front take the current label and are pushed
ComponentsExpand ==
    /\ pc = "component"
    /\ queue # <<>>
    /\ Head(queue) \in DOMAIN adjacency
    /\ LET st == LabelUnlabelled(adjacency[Head(queue)], 1, n_nodes, current_component,
                                 [ids |-> component_ids, qu |-> Tail(queue),
                                  cnt |-> pushes])
       IN  /\ component_ids' = st.ids
           /\ queue' = st.qu
           /\ pushes' = st.cnt
    /\ UNCHANGED <<pc, node, current_component, componentRest>>

\* the queue is empty: `++current_component` and the next node
ComponentsClose ==
    /\ pc = "component"
    /\ queue = <<>>
    /\ current_component' = next_component(current_component)
    /\ node' = node + 1
    /\ pc' = "components"
    /\ UNCHANGED <<component_ids, queue, pushes, componentRest>>

ComponentsReturn ==
    /\ pc = "components"
    /\ node >= n_nodes
    /\ pc' = "done"
    /\ UNCHANGED <<node, component_ids, current_component, queue, pushes, componentRest>>

NextComponents ==
    \/ ComponentsSkip \/ ComponentsSeed \/ ComponentsPopAbsent \/ ComponentsExpand
    \/ ComponentsClose \/ ComponentsReturn

SpecComponents == InitComponents /\ [][NextComponents]_vars

\* the nodes below size reached from S along neighbour entries below size, in
\* at most steps steps
RECURSIVE ReachedBelow(_, _, _, _)
ReachedBelow(adj, size, S, steps) ==
    IF steps <= 0 THEN S
    ELSE ReachedBelow(adj, size,
                      S \cup {x \in Successors(adj, S) : x < size}, steps - 1)

\* among the nodes below size, every neighbour entry has its reverse entry
SymmetricBelow(adj, size) ==
    \A x \in 0..(size - 1), y \in 0..(size - 1) :
        x \in Successors(adj, {y}) <=> y \in Successors(adj, {x})

\* the nodes that carry the label c
Labelled(c) == {x \in 0..(n_nodes - 1) : component_ids[x + 1] = c}

\* C15: find_connected_components returns one label per node 0..n_nodes-1
\* and leaves no node at -1; the labels used are exactly 0..c-1 and they are
\* assigned in ascending order of the smallest node of each component (node 0
\* has label 0); neighbours with id >= n_nodes are ignored; and when the
\* adjacency is symmetric, two nodes have the same label if and only if a
\* path (of nodes below n_nodes, the others being ignored) connects them.
C15_ComponentLabels ==
    pc = "done" =>
        /\ Len(component_ids) = n_nodes
        /\ \A x \in 0..(n_nodes - 1) : component_ids[x + 1] # -1
        /\ Range(component_ids) = 0..(current_component - 1)
        /\ n_nodes > 0 => component_ids[1] = 0
        /\ \A c \in Range(component_ids), d \in Range(component_ids) :
              c < d => \E x \in Labelled(c) : \A y \in Labelled(d) : x < y
        /\ SymmetricBelow(adjacency, n_nodes) =>
              \A x \in 0..(n_nodes - 1), y \in 0..(n_nodes - 1) :
                  component_ids[x + 1] = component_ids[y + 1]
                      <=> y \in ReachedBelow(adjacency, n_nodes, {x}, n_nodes)

\* a labelling returned for a symmetric map in which two nodes are connected
\* only through a third one and another node is alone in its component
C15_Witness ==
    /\ pc = "done"
    /\ SymmetricBelow(adjacency, n_nodes)
    /\ \E x \in 0..(n_nodes - 1), y \in 0..(n_nodes - 1) :
          /\ component_ids[x + 1] = component_ids[y + 1]
          /\ x # y
          /\ y \notin Successors(adjacency, {x})
    /\ current_component >= 2

(* ---------------------------------------------------------------------- *)
(* string_ops.cpp                                                          *)
(* ---------------------------------------------------------------------- *)

\* the longest list of strings
MaxStrings == 3

\* std::max on size_t
Max(x, y) == IF x < y THEN y ELSE x

\* std::min({x, y, z}) on int
Min3(x, y, z) == Min(Min(x, y), z)

\* the inner loop of levenshtein_distance: curr[c..Len(b)] of row r, given the
\* row prev and the entries of curr filled so far (rows hold the columns
\* 0..Len(b) at the positions 1..Len(b)+1)
RECURSIVE LevenshteinRow(_, _, _, _, _, _)
LevenshteinRow(a, b, r, c, prev, curr) ==
    IF c > Len(b) THEN curr
    ELSE LET cost == IF a[r] = b[c] THEN 0 ELSE 1
         IN  LevenshteinRow(a, b, r, c + 1, prev,
                            Append(curr, Min3(prev[c + 1] + 1,
                                              curr[c] + 1,
                                              prev[c] + cost)))

\* the outer loop of levenshtein_distance from row r on: the last row computed
\* (curr is as long as prev: both are vectors of Len(b) + 1 entries)
RECURSIVE LevenshteinRows(_, _, _, _)
LevenshteinRows(a, b, r, prev) ==
    IF r > Len(a) THEN prev
    ELSE LET curr == LevenshteinRow(a, b, r, 1, prev, <<r>>)
         IN  IF Len(curr) = Len(prev) THEN LevenshteinRows(a, b, r + 1, curr)
             ELSE <<>>

levenshtein_distance(a, b) ==
    IF Len(a) = 0 THEN Len(b)
    ELSE IF Len(b) = 0 THEN Len(a)
    ELSE LevenshteinRows(a, b, 1, [c \in 1..(Len(b) + 1) |-> c - 1])[Len(b) + 1]

string_similarity(a, b) ==
    IF Len(a) = 0 /\ Len(b) = 0 THEN One
    ELSE LET max_len == Max(Len(a), Len(b))
         IN  IF max_len = 0 THEN One
             ELSE FSub(One, FDiv(FromInt(levenshtein_distance(a, b)), FromInt(max_len)))

\* the early termination of find_string_duplicates: best_possible < threshold
pair_is_skipped(a, b, t) ==
    LET max_len == Max(Len(a), Len(b))
        min_len == Min(Len(a), Len(b))
    IN  /\ max_len > 0
        /\ FLt(FDiv(FromInt(min_len), FromInt(max_len)), t)

Words ==
    { <<>>, <<"a">>, <<"a", "b">>, <<"a", "b", "c">>, <<"a", "b", "d">>,
      <<"a", "a", "a", "a", "a", "a", "a", "a", "a", "a", "a">> }

StringLists == UNION {[1..len -> Words] : len \in 0..MaxStrings}

StringThresholds == {Zero, F(91, -3), F(667, -3), One}

InitStrings ==
    /\ pc = "strings"
    /\ avx2 = FALSE
    /\ strings \in StringLists
    /\ threshold \in StringThresholds
    /\ n = Len(strings)
    /\ i = 0
    /\ j = 1
    /\ duplicates = <<>>
    /\ embeddings = <<>>
    /\ norms = <<>>
    /\ dim = 0
    /\ config = DefaultConfig
    /\ written = <<>>
    /\ IdleCalc
    /\ inputs = <<>> /\ results = <<>> /\ end = 0
    /\ arr = [importance |-> <<>>, hours_passed |-> <<>>, access_count |-> <<>>,
              connection_count |-> <<>>, last_access_hours |-> <<>>,
              memory_type |-> <<>>, channel_mentions |-> <<>>]
    /\ output = <<>>
    /\ IdleCos
    /\ query = <<>> /\ corpus = <<>> /\ n_vectors = 0
    /\ query_norm = Zero /\ v = 0 /\ scores = <<>>
    /\ IdleNumpy
    /\ IdleGraph

stringsRest == <<avx2, config, written, calcVars, inputs, results, end, arr, output,
                 cosVars, query, corpus, n_vectors, query_norm, v, scores, numpyVars,
                 graphVars, dim, embeddings, norms, strings, threshold, n>>

\* inner loop: the pair is skipped for its lengths: `continue`
StringsSkipPair ==
    /\ pc = "strings"
    /\ i < n /\ j < n
    /\ pair_is_skipped(strings[i + 1], strings[j + 1], threshold)
    /\ j' = j + 1
    /\ UNCHANGED <<pc, i, duplicates, stringsRest>>

\* inner loop: the similarity of the pair, appended when it reaches the threshold
StringsPair ==
    /\ pc = "strings"
    /\ i < n /\ j < n
    /\ ~pair_is_skipped(strings[i + 1], strings[j + 1], threshold)
    /\ LET sim == string_similarity(strings[i + 1], strings[j + 1])
       IN  duplicates' = IF FGe(sim, threshold)
                         THEN Append(duplicates, <<i, j, sim>>)
                         ELSE duplicates
    /\ j' = j + 1
    /\ UNCHANGED <<pc, i, stringsRest>>

\* the inner loop ends: `++i`, and j = i + 1
StringsRowEnd ==
    /\ pc = "strings"
    /\ i < n /\ j >= n
    /\ i' = i + 1
    /\ j' = i + 2
    /\ UNCHANGED <<pc, duplicates, stringsRest>>

StringsReturn ==
    /\ pc = "strings"
    /\ i >= n
    /\ pc' = "done"
    /\ UNCHANGED <<i, j, duplicates, stringsRest>>

NextStrings == StringsSkipPair \/ StringsPair \/ StringsRowEnd \/ StringsReturn

SpecStrings == InitStrings /\ [][NextStrings]_vars

\* C16: the length-based pruning of find_string_duplicates never changes the
\* result: the output is exactly the list, in ascending (i, then j) order, of
\* all pairs i < j with string_similarity(strings[i], strings[j]) >= threshold
\* (a pair that was skipped has a similarity below the threshold), and a pair
\* of two empty strings is not skipped and has similarity 1.0.
C16_PruningNeverChangesTheResult ==
    pc = "done" =>
        /\ \A k \in 1..Len(duplicates) :
              LET t == duplicates[k]
              IN  /\ t[1] \in 0..(n - 1) /\ t[2] \in 0..(n - 1) /\ t[1] < t[2]
                  /\ t[3] = string_similarity(strings[t[1] + 1], strings[t[2] + 1])
                  /\ FGe(t[3], threshold)
        /\ \A p \in 0..(n - 1), q \in 0..(n - 1) :
              p < q /\ FGe(string_similarity(strings[p + 1], strings[q + 1]), threshold)
                  => \E k \in 1..Len(duplicates) :
                        duplicates[k][1] = p /\ duplicates[k][2] = q
        /\ \A k \in 1..(Len(duplicates) - 1) :
              \/ duplicates[k][1] < duplicates[k + 1][1]
              \/ /\ duplicates[k][1] = duplicates[k + 1][1]
                 /\ duplicates[k][2] < duplicates[k + 1][2]
        /\ \A p \in 0..(n - 1), q \in 0..(n - 1) :
              p < q /\ strings[p + 1] = <<>> /\ strings[q + 1] = <<>>
                  => /\ ~pair_is_skipped(<<>>, <<>>, threshold)
                     /\ string_similarity(<<>>, <<>>) = One

(* ---------------------------------------------------------------------- *)
(* graph_ops.cpp: both traversals, run to completion                       *)
(* ---------------------------------------------------------------------- *)

InitGraph == InitBfs \/ InitComponents

NextGraph == NextBfs \/ NextComponents

\* a call that has started keeps executing until it returns
SpecGraphFair == InitGraph /\ [][NextGraph]_vars /\ WF_vars(NextGraph)

\* C19: bfs_neighbors and find_connected_components terminate on every finite
\* adjacency map, also with cycles, self-loops and repeated neighbour
\* entries: a node is marked visited (or labelled) when it is enqueued, so
\* each node enters the queue at most once, and the call eventually returns.
C19_TraversalsTerminate ==
    /\ [](\A x \in DOMAIN pushes : pushes[x] <= 1)
    /\ <>(pc = "done")

\* a traversal returned on a map with a self-loop and repeated neighbour
\* entries, having enqueued the node of the self-loop and another node once each
C19_Witness ==
    /\ pc = "done"
    /\ \E u \in DOMAIN adjacency :
          /\ u \in Range(adjacency[u])
          /\ Len(adjacency[u]) > Cardinality(Range(adjacency[u]))
          /\ pushes[u] = 1
          /\ \E w \in Range(adjacency[u]) : w # u /\ pushes[w] = 1

Init == InitCalc

Next == NextCalc

Spec == SpecCalc

====
